---- MODULE Spec2Model ----
(***************************************************************************)
(* Model of check_api_keys_streamlit.py: the key masker (mask_key), the    *)
(* key validator (check_api_key) and the batch loop of the button handler. *)
(*                                                                         *)
(* Strings are sequences of one-character strings, so that strip, slicing  *)
(* and splitlines are computed as Python computes them.                    *)
(***************************************************************************)
EXTENDS Integers, Sequences, FiniteSets, TLC

VARIABLES
    \* ---- mask_key called on its own (MaskSpec)
    m_key, m_vs, m_ve, m_out, m_pc,
    \* ---- check_api_key called on its own (CheckSpec)
    c_key, c_net, c_ret, c_pc,
    \* ---- the button handler (Spec)
    keys_text, pc, api_keys, idx, results, debug_rows,
    ok_count, fail_count, warned, progress,
    \* ---- the outside world as the handler drives it: the GET requests issued,
    \*      whether one is in flight, and for each finished check_api_key call
    \*      what the GET did and what the call returned
    http_calls, inflight, returned

mask_vars  == <<m_key, m_vs, m_ve, m_out, m_pc>>
check_vars == <<c_key, c_net, c_ret, c_pc>>
batch_vars == <<keys_text, pc, api_keys, idx, results, debug_rows,
                ok_count, fail_count, warned, progress,
                http_calls, inflight, returned>>
vars == <<mask_vars, check_vars, batch_vars>>

---------------------------------------------------------------------------
(* Bounds of the model *)

MaxKeyLen == 8      \* longest key string given to mask_key on its own
MaxVisible == 2     \* largest non-default visible_start / visible_end
MaxElapsed == 1     \* largest elapsed time of a request, in clock ticks
MaxLines == 3       \* most lines of the text area

(* Program constants *)

DefaultVisibleStart == 4
DefaultVisibleEnd == 3
RawErrorLen == 300
HttpOk == 200

---------------------------------------------------------------------------
(* Python string primitives *)

Min(a, b) == IF a < b THEN a ELSE b
Max(a, b) == IF a > b THEN a ELSE b

Whitespace == {" ", "\t", "\n"}

\* the positions of s that hold no whitespace
Inked(s) == {i \in 1..Len(s) : s[i] \notin Whitespace}

SetMin(S) == CHOOSE x \in S : \A y \in S : x <= y
SetMax(S) == CHOOSE x \in S : \A y \in S : x >= y

\* str.lstrip(), str.rstrip(), str.strip(): leading and trailing whitespace
\* goes, inner whitespace stays
LStrip(s) == IF Inked(s) = {} THEN <<>> ELSE SubSeq(s, SetMin(Inked(s)), Len(s))
RStrip(s) == IF Inked(s) = {} THEN <<>> ELSE SubSeq(s, 1, SetMax(Inked(s)))
Strip(s) == LStrip(RStrip(s))

\* A slice bound i on a sequence of length n: negative counts from the end,
\* and the result is clamped to 0..n
PyIndex(i, n) == IF i < 0 THEN Max(n + i, 0) ELSE Min(i, n)

\* s[:stop]
PySliceTo(s, stop) == SubSeq(s, 1, PyIndex(stop, Len(s)))

\* s[start:]
PySliceFrom(s, start) == SubSeq(s, PyIndex(start, Len(s)) + 1, Len(s))

\* c * n
Repeat(c, n) == [i \in 1..n |-> c]

Stars4 == <<"*", "*", "*", "*">>

---------------------------------------------------------------------------
(* mask_key *)

\* the same with < for <= in the length test
mask_key_strict_less(key, visible_start, visible_end) ==
    LET k == Strip(key) IN
    IF Len(k) < visible_start + visible_end
    THEN Repeat("*", Len(k))
    ELSE PySliceTo(k, visible_start) \o Stars4 \o PySliceFrom(k, 0 - visible_end)

mask_key(key, visible_start, visible_end) ==
    LET k == Strip(key) IN
    IF Len(k) <= visible_start + visible_end
    THEN Repeat("*", Len(k))
    ELSE PySliceTo(k, visible_start) \o Stars4 \o PySliceFrom(k, 0 - visible_end)

mask_key_default(key) == mask_key(key, DefaultVisibleStart, DefaultVisibleEnd)

---------------------------------------------------------------------------
(* mask_key on its own: the inputs are drawn in MaskInit, MaskCall applies it *)

SeqsUpTo(S, n) == UNION {[1..k -> S] : k \in 0..n}

KeyAlphabet == {"a", "b", " "}

Example_ABCDEFGHIJK == <<"A", "B", "C", "D", "E", "F", "G", "H", "I", "J", "K">>
Example_AB == <<"A", "B">>

MaskKeys == SeqsUpTo(KeyAlphabet, MaxKeyLen) \cup {Example_ABCDEFGHIJK, Example_AB}

VisiblePairs ==
    ((0..MaxVisible) \X (0..MaxVisible))
        \cup {<<DefaultVisibleStart, DefaultVisibleEnd>>}

NoString == <<"<unset>">>

MaskIdle ==
    /\ m_key = <<>> /\ m_vs = 0 /\ m_ve = 0 /\ m_out = NoString /\ m_pc = "off"

MaskInit ==
    /\ m_key \in MaskKeys
    /\ \E p \in VisiblePairs : m_vs = p[1] /\ m_ve = p[2]
    /\ m_out = NoString
    /\ m_pc = "start"

MaskCall ==
    /\ m_pc = "start"
    /\ m_out' = mask_key(m_key, m_vs, m_ve)
    /\ m_pc' = "done"
    /\ UNCHANGED <<m_key, m_vs, m_ve>>

---------------------------------------------------------------------------
(* Python values as they appear in a decoded JSON body.  A value is its    *)
(* type and its lexeme, so that 1, 1.0, true and "1" are four values.      *)

PyVal(t, v) == [t |-> t, v |-> v]

PyNone == PyVal("NoneType", <<"N", "o", "n", "e">>)

L_true  == <<"t", "r", "u", "e">>
L_false == <<"f", "a", "l", "s", "e">>
L_null  == <<"n", "u", "l", "l">>

IntLexemes   == {<<"0">>, <<"1">>, <<"2">>}
FloatLexemes == {<<"1", ".", "0">>, <<"0", ".", "5">>}
StrLexemes   == {<<"\"", "1", "\"">>, <<"\"", "x", "\"">>}

ScalarLexemes ==
    IntLexemes \cup FloatLexemes \cup StrLexemes \cup {L_true, L_false, L_null}

\* json.loads on one scalar lexeme
JsonScalar(lex) ==
    IF lex \in IntLexemes THEN PyVal("int", lex)
    ELSE IF lex \in FloatLexemes THEN PyVal("float", lex)
    ELSE IF lex \in StrLexemes THEN PyVal("str", SubSeq(lex, 2, Len(lex) - 1))
    ELSE IF lex = L_true THEN PyVal("bool", <<"T", "r", "u", "e">>)
    ELSE IF lex = L_false THEN PyVal("bool", <<"F", "a", "l", "s", "e">>)
    ELSE PyNone

\* Python's  x == 1 : numeric equality across int, float and bool
PyEqualsOne(x) ==
    \/ x.t = "int"   /\ x.v = <<"1">>
    \/ x.t = "float" /\ x.v = <<"1", ".", "0">>
    \/ x.t = "bool"  /\ x.v = <<"T", "r", "u", "e">>

\* str(x), as an f-string formats it
PyStr(x) == x.v

\* str(n) for a natural number
RECURSIVE DecStr(_)
DecStr(n) ==
    LET d == <<"0", "1", "2", "3", "4", "5", "6", "7", "8", "9">>
    IN IF n < 10 THEN <<d[n + 1]>> ELSE DecStr(n \div 10) \o <<d[(n % 10) + 1]>>

---------------------------------------------------------------------------
(* resp.json() on the documents the model's server sends: a scalar, [],    *)
(* or an object of at most one member  {"name": scalar}.  Anything else    *)
(* raises, as does an empty or non-JSON body.                              *)

JsonRaises == [raises |-> TRUE,  isdict |-> FALSE, has_success |-> FALSE, success |-> PyNone]
JsonOther  == [raises |-> FALSE, isdict |-> FALSE, has_success |-> FALSE, success |-> PyNone]
JsonDict(has, val) ==
    [raises |-> FALSE, isdict |-> TRUE, has_success |-> has, success |-> val]

K_success == <<"s", "u", "c", "c", "e", "s", "s">>

\* position of the first " in s, or 0
RECURSIVE QuoteAt(_, _)
QuoteAt(s, i) ==
    IF i > Len(s) THEN 0 ELSE IF s[i] = "\"" THEN i ELSE QuoteAt(s, i + 1)

\* the member  "name" : scalar  between the braces
JsonMember(inner) ==
    IF Head(inner) # "\"" THEN JsonRaises
    ELSE LET close == QuoteAt(inner, 2) IN
         IF close = 0 THEN JsonRaises
         ELSE LET name == SubSeq(inner, 2, close - 1)
                  rest == LStrip(SubSeq(inner, close + 1, Len(inner)))
              IN IF rest = <<>> \/ Head(rest) # ":" THEN JsonRaises
                 ELSE LET lex == Strip(Tail(rest)) IN
                      IF lex \notin ScalarLexemes THEN JsonRaises
                      ELSE IF name = K_success THEN JsonDict(TRUE, JsonScalar(lex))
                      ELSE JsonDict(FALSE, PyNone)

ParseJson(text) ==
    LET t == Strip(text) IN
    IF t \in ScalarLexemes \/ t = <<"[", "]">> THEN JsonOther
    ELSE IF Len(t) >= 2 /\ Head(t) = "{" /\ t[Len(t)] = "}"
    THEN LET inner == Strip(SubSeq(t, 2, Len(t) - 1)) IN
         IF inner = <<>> THEN JsonDict(FALSE, PyNone) ELSE JsonMember(inner)
    ELSE JsonRaises

---------------------------------------------------------------------------
(* check_api_key *)

Some(x) == [some |-> TRUE, val |-> x]
NoInt   == [some |-> FALSE, val |-> 0]
NoStr   == [some |-> FALSE, val |-> <<>>]

Msg(text, arg) == [text |-> text, arg |-> arg]

\* TEST_URL.format(api_key=key.strip())
Url(key) == [base |-> "https://api.api-tennis.com/tennis/?method=get_events&APIkey=",
             api_key |-> Strip(key)]

Returns(d)  == [raised |-> FALSE, exc |-> "", value |-> d]
Raises(cls) == [raised |-> TRUE, exc |-> cls, value |-> [ok |-> FALSE]]

\* lines 94-103
HttpErrorResult(status_code, elapsed, raw_text) ==
    [ok            |-> FALSE,
     status_code   |-> Some(status_code),
     elapsed       |-> elapsed,
     msg           |-> Msg("Error HTTP {status_code}", DecStr(status_code)),
     success_field |-> PyNone,
     raw_error     |-> Some(PySliceTo(raw_text, RawErrorLen))]

\* lines 105-127
Status200Result(status_code, elapsed, raw_text, data) ==
    LET isdict == ~data.raises /\ data.isdict
        success_field == IF isdict THEN data.success ELSE PyNone
        ok == isdict /\ PyEqualsOne(success_field)
        msg == IF isdict
               THEN IF ok
                    THEN Msg("OK (success=1, API key valida y metodo permitido)", <<>>)
                    ELSE Msg("Respuesta 200 pero success={success_field}", PyStr(success_field))
               ELSE Msg("200 pero respuesta no es JSON valido o no es dict", <<>>)
    IN [ok            |-> ok,
        status_code   |-> Some(status_code),
        elapsed       |-> elapsed,
        msg           |-> msg,
        success_field |-> success_field,
        raw_error     |-> IF ok THEN NoStr ELSE Some(PySliceTo(raw_text, RawErrorLen))]

\* lines 129-138
TimeoutResult(elapsed) ==
    [ok            |-> FALSE,
     status_code   |-> NoInt,
     elapsed       |-> elapsed,
     msg           |-> Msg("Timeout (no hubo respuesta dentro del limite)", <<>>),
     success_field |-> PyNone,
     raw_error     |-> NoStr]

\* lines 139-148
ExceptionResult(elapsed, desc) ==
    [ok            |-> FALSE,
     status_code   |-> NoInt,
     elapsed       |-> elapsed,
     msg           |-> Msg("Excepcion: {e}", desc),
     success_field |-> PyNone,
     raw_error     |-> NoStr]

\* The try block, lines 81-127.  net is what the GET does: it raises Timeout,
\* raises another exception, or returns a response.  resp.json() raising is
\* caught by the inner except, which leaves data = None.
TryBlock(net) ==
    IF net.kind = "timeout" THEN Raises("Timeout")
    ELSE IF net.kind = "error" THEN Raises("Exception")
    ELSE LET status_code == net.status
             raw_text == net.text
             data == ParseJson(raw_text)
         IN IF status_code # HttpOk
            THEN Returns(HttpErrorResult(status_code, net.elapsed, raw_text))
            ELSE Returns(Status200Result(status_code, net.elapsed, raw_text, data))

\* the same without the final  except Exception  clause
check_api_key_timeout_only(key, net) ==
    LET r == TryBlock(net) IN
    IF ~r.raised THEN r
    ELSE IF r.exc = "Timeout" THEN Returns(TimeoutResult(net.elapsed))
    ELSE r

\* the same judging the body before the status
check_api_key_body_first(key, net) ==
    LET r == TryBlock(net) IN
    IF ~r.raised
    THEN Returns(Status200Result(net.status, net.elapsed, net.text, ParseJson(net.text)))
    ELSE IF r.exc = "Timeout" THEN Returns(TimeoutResult(net.elapsed))
    ELSE Returns(ExceptionResult(net.elapsed, net.desc))

\* the same reporting the status of a response that failed while being read
check_api_key_keeps_status(key, net) ==
    LET r == TryBlock(net) IN
    IF ~r.raised THEN r
    ELSE IF r.exc = "Timeout" THEN Returns(TimeoutResult(net.elapsed))
    ELSE Returns([ExceptionResult(net.elapsed, net.desc) EXCEPT
                    !.status_code = IF net.status > 0 THEN Some(net.status) ELSE @])

\* the same keeping the body of a good answer in raw_error
check_api_key_always_raw(key, net) ==
    LET r == TryBlock(net) IN
    IF ~r.raised
    THEN Returns([r.value EXCEPT !.raw_error = Some(PySliceTo(net.text, RawErrorLen))])
    ELSE IF r.exc = "Timeout" THEN Returns(TimeoutResult(net.elapsed))
    ELSE Returns(ExceptionResult(net.elapsed, net.desc))

\* lines 71-148.  The request goes to Url(key); what comes back is net.
check_api_key(key, net) ==
    LET r == TryBlock(net) IN
    IF ~r.raised THEN r
    ELSE IF r.exc = "Timeout" THEN Returns(TimeoutResult(net.elapsed))
    ELSE Returns(ExceptionResult(net.elapsed, net.desc))

---------------------------------------------------------------------------
(* What a GET can do *)

Net(kind, status, text, elapsed, desc) ==
    [kind |-> kind, status |-> status, text |-> text, elapsed |-> elapsed, desc |-> desc]

B_empty    == <<>>
B_html     == <<"<", "h", "t", "m", "l", ">">>
B_list     == <<"[", "]">>
B_cut      == <<"{", "\"", "s", "u", "c", "c", "e", "s", "s", "\"", ":", "1">>
B_noobj    == <<"{", "}">>
B_errorobj == <<"{", "\"", "e", "r", "r", "o", "r", "\"", ":", "\"", "x", "\"", "}">>
B_success(lex) == <<"{", "\"">> \o K_success \o <<"\"", ":">> \o lex \o <<"}">>
B_spaced   == <<" ", "{", " ", "\"">> \o K_success \o <<"\"", " ", ":", " ", "1", " ", "}", "\n">>

BaseBodies ==
    {B_empty, B_html, B_list, B_cut, B_noobj, B_errorobj, B_spaced, <<"1">>}
        \cup {B_success(lex) : lex \in ScalarLexemes}

\* body followed by blanks up to n characters in all
PadTo(body, n) == body \o Repeat(" ", n - Len(body))

MaxOver == 1        \* how far past RawErrorLen the longest body goes

LongLengths == (RawErrorLen - 1)..(RawErrorLen + MaxOver)

Bodies == BaseBodies \cup {PadTo(b, n) : b \in BaseBodies, n \in LongLengths}

Statuses == {HttpOk, 201, 401, 500}

ErrorDescs == {<<"d", "n", "s">>, <<>>}

\* status 0: no status line was received
Timeouts  == {Net("timeout", 0, <<>>, e, <<>>) : e \in 0..MaxElapsed}
Errors    == {Net("error", st, <<>>, e, d) : st \in {0, HttpOk}, e \in 0..MaxElapsed, d \in ErrorDescs}
Responses == {Net("response", st, b, e, <<>>) : st \in Statuses, b \in Bodies, e \in 0..MaxElapsed}

Nets == Timeouts \cup Errors \cup Responses

---------------------------------------------------------------------------
(* check_api_key on its own: the inputs are drawn in CheckInit, CheckCall  *)
(* applies it                                                               *)

CheckKeys == {<<>>, <<"a", "b">>, <<" ", "a", "b", "\n">>}

NoReturn == [raised |-> FALSE, exc |-> "not called", value |-> [ok |-> FALSE]]

CheckIdle ==
    /\ c_key = <<>> /\ c_net = Net("none", 0, <<>>, 0, <<>>)
    /\ c_ret = NoReturn /\ c_pc = "off"

CheckInit ==
    /\ c_key \in CheckKeys
    /\ c_net \in Nets
    /\ c_ret = NoReturn
    /\ c_pc = "start"

CheckCall ==
    /\ c_pc = "start"
    /\ c_ret' = check_api_key(c_key, c_net)
    /\ c_pc' = "done"
    /\ UNCHANGED <<c_key, c_net>>

---------------------------------------------------------------------------
(* The button handler, lines 155-227 *)

\* index of the first line break of s at or after i, or 0
RECURSIVE BreakAt(_, _)
BreakAt(s, i) ==
    IF i > Len(s) THEN 0 ELSE IF s[i] = "\n" THEN i ELSE BreakAt(s, i + 1)

\* str.splitlines(): no empty last line after a final line break
RECURSIVE SplitLines(_)
SplitLines(s) ==
    IF s = <<>> THEN <<>>
    ELSE LET i == BreakAt(s, 1) IN
         IF i = 0 THEN <<s>>
         ELSE <<SubSeq(s, 1, i - 1)>> \o SplitLines(SubSeq(s, i + 1, Len(s)))

\* [line.strip() for line in raw_lines if line.strip()]
RECURSIVE StripNonBlank(_)
StripNonBlank(lines) ==
    IF lines = <<>> THEN <<>>
    ELSE IF Strip(Head(lines)) # <<>>
         THEN <<Strip(Head(lines))>> \o StripNonBlank(Tail(lines))
         ELSE StripNonBlank(Tail(lines))

\* elapsed is counted in ticks of 0.1 ms; round(elapsed, 3) keeps whole ms
Round3(e) == ((e + 5) \div 10) * 10

StatusCell(status_code) ==
    IF status_code.some THEN [na |-> FALSE, code |-> status_code.val]
    ELSE [na |-> TRUE, code |-> 0]

\* lines 176-187
ResultRow(key, result) ==
    [masked  |-> mask_key_default(key),
     works   |-> IF result.ok THEN "Si" ELSE "No",
     status  |-> StatusCell(result.status_code),
     success |-> result.success_field,
     time    |-> Round3(result.elapsed),
     detail  |-> result.msg]

\* lines 192-195
DebugRow(key, result) ==
    [masked |-> mask_key_default(key), raw |-> result.raw_error.val]

\* if result.get("raw_error"): neither None nor ""
Truthy(raw_error) == raw_error.some /\ raw_error.val # <<>>

\* sum(1 for r in results if r["Funciona"] == "Si")
CountOk(rows) == Cardinality({i \in 1..Len(rows) : rows[i].works = "Si"})

Line_ab   == <<"a", "b">>
Line_long == <<" ", "a", "b", "c", "d", "e", "f", "g", "h", " ">>

LineChoices == {<<>>, <<" ">>, Line_ab, Line_long}

RECURSIVE JoinLines(_)
JoinLines(lines) ==
    IF lines = <<>> THEN <<>>
    ELSE IF Len(lines) = 1 THEN Head(lines)
    ELSE Head(lines) \o <<"\n">> \o JoinLines(Tail(lines))

Texts == {JoinLines(ls) : ls \in SeqsUpTo(LineChoices, MaxLines)}

\* the answers the server gives during a batch
BatchNets ==
    { Net("timeout", 0, <<>>, MaxElapsed, <<>>),
      Net("error", 0, <<>>, 0, <<"d", "n", "s">>),
      Net("response", 401, B_success(<<"1">>), 0, <<>>),
      Net("response", HttpOk, B_success(<<"1">>), 0, <<>>),
      Net("response", HttpOk, PadTo(B_success(<<"0">>), RawErrorLen + MaxOver), 0, <<>>),
      Net("response", HttpOk, B_empty, 0, <<>>) }

BatchIdle ==
    /\ keys_text = <<>> /\ pc = "off" /\ api_keys = <<>> /\ idx = 0
    /\ results = <<>> /\ debug_rows = <<>>
    /\ ok_count = NoInt /\ fail_count = NoInt
    /\ warned = FALSE /\ progress = [done |-> 0, total |-> 0]
    /\ http_calls = <<>> /\ inflight = FALSE /\ returned = <<>>

BatchInit ==
    /\ keys_text \in Texts
    /\ pc = "idle" /\ api_keys = <<>> /\ idx = 0
    /\ results = <<>> /\ debug_rows = <<>>
    /\ ok_count = NoInt /\ fail_count = NoInt
    /\ warned = FALSE /\ progress = [done |-> 0, total |-> 0]
    /\ http_calls = <<>> /\ inflight = FALSE /\ returned = <<>>

\* the click without the test for an empty key list
Click_no_empty_check ==
    /\ pc = "idle"
    /\ api_keys' = StripNonBlank(SplitLines(keys_text))
    /\ warned' = FALSE
    /\ pc' = "loop"
    /\ idx' = 0
    /\ results' = <<>>
    /\ debug_rows' = <<>>
    /\ UNCHANGED <<keys_text, ok_count, fail_count, progress,
                   http_calls, inflight, returned>>

\* lines 155-168: the click, up to the head of the loop
Click ==
    /\ pc = "idle"
    /\ LET raw_lines == SplitLines(keys_text)
           keys == StripNonBlank(raw_lines)
       IN /\ api_keys' = keys
          /\ IF keys = <<>>
             THEN warned' = TRUE /\ pc' = "warned"
             ELSE warned' = FALSE /\ pc' = "loop"
    /\ idx' = 0
    /\ results' = <<>>
    /\ debug_rows' = <<>>
    /\ UNCHANGED <<keys_text, ok_count, fail_count, progress,
                   http_calls, inflight, returned>>

\* lines 170-173: the next key is taken and its request sent
StartCall ==
    /\ pc = "loop"
    /\ idx < Len(api_keys)
    /\ idx' = idx + 1
    /\ http_calls' = Append(http_calls, Url(api_keys[idx + 1]))
    /\ inflight' = TRUE
    /\ pc' = "calling"
    /\ UNCHANGED <<keys_text, api_keys, results, debug_rows, ok_count,
                   fail_count, warned, progress, returned>>

\* the same putting the new row first
FinishCall_prepend(net) ==
    /\ pc = "calling"
    /\ LET key == api_keys[idx]
           r == check_api_key(key, net)
       IN IF r.raised
          THEN /\ pc' = "crashed"
               /\ UNCHANGED <<results, debug_rows, progress, returned>>
          ELSE /\ results' = <<ResultRow(key, r.value)>> \o results
               /\ debug_rows' = IF Truthy(r.value.raw_error)
                                THEN Append(debug_rows, DebugRow(key, r.value))
                                ELSE debug_rows
               /\ progress' = [done |-> idx, total |-> Len(api_keys)]
               /\ returned' = Append(returned, [net |-> net, value |-> r.value])
               /\ pc' = "loop"
    /\ inflight' = FALSE
    /\ UNCHANGED <<keys_text, api_keys, idx, ok_count, fail_count, warned, http_calls>>

\* the same leaving the loop at the first key that fails
FinishCall_stop_on_failure(net) ==
    /\ pc = "calling"
    /\ LET key == api_keys[idx]
           r == check_api_key(key, net)
       IN IF r.raised
          THEN /\ pc' = "crashed"
               /\ UNCHANGED <<results, debug_rows, progress, returned>>
          ELSE /\ results' = Append(results, ResultRow(key, r.value))
               /\ debug_rows' = IF Truthy(r.value.raw_error)
                                THEN Append(debug_rows, DebugRow(key, r.value))
                                ELSE debug_rows
               /\ progress' = [done |-> idx, total |-> Len(api_keys)]
               /\ returned' = Append(returned, [net |-> net, value |-> r.value])
               /\ pc' = IF r.value.ok THEN "loop" ELSE "stopped"
    /\ inflight' = FALSE
    /\ UNCHANGED <<keys_text, api_keys, idx, ok_count, fail_count, warned, http_calls>>

\* lines 173-198: check_api_key returns and its row is recorded; an
\* exception leaving check_api_key would leave the handler too
FinishCall(net) ==
    /\ pc = "calling"
    /\ LET key == api_keys[idx]
           r == check_api_key(key, net)
       IN IF r.raised
          THEN /\ pc' = "crashed"
               /\ UNCHANGED <<results, debug_rows, progress, returned>>
          ELSE /\ results' = Append(results, ResultRow(key, r.value))
               /\ debug_rows' = IF Truthy(r.value.raw_error)
                                THEN Append(debug_rows, DebugRow(key, r.value))
                                ELSE debug_rows
               /\ progress' = [done |-> idx, total |-> Len(api_keys)]
               /\ returned' = Append(returned, [net |-> net, value |-> r.value])
               /\ pc' = "loop"
    /\ inflight' = FALSE
    /\ UNCHANGED <<keys_text, api_keys, idx, ok_count, fail_count, warned, http_calls>>

\* lines 200-212: the loop is over, the summary is computed and shown
Finish ==
    /\ pc = "loop"
    /\ idx = Len(api_keys)
    /\ ok_count' = Some(CountOk(results))
    /\ fail_count' = Some(Len(results) - CountOk(results))
    /\ pc' = "done"
    /\ UNCHANGED <<keys_text, api_keys, idx, results, debug_rows, warned,
                   progress, http_calls, inflight, returned>>

---------------------------------------------------------------------------
(* Specifications *)

Init == BatchInit /\ MaskIdle /\ CheckIdle

Next ==
    \/ Click /\ UNCHANGED <<mask_vars, check_vars>>
    \/ StartCall /\ UNCHANGED <<mask_vars, check_vars>>
    \/ (\E net \in BatchNets : FinishCall(net)) /\ UNCHANGED <<mask_vars, check_vars>>
    \/ Finish /\ UNCHANGED <<mask_vars, check_vars>>

Spec == Init /\ [][Next]_vars

\* Once clicked, the handler is one sequential script that runs on; each GET
\* returns or raises within its timeout.  The click itself is up to the user.
Running ==
    \/ StartCall /\ UNCHANGED <<mask_vars, check_vars>>
    \/ (\E net \in BatchNets : FinishCall(net)) /\ UNCHANGED <<mask_vars, check_vars>>
    \/ Finish /\ UNCHANGED <<mask_vars, check_vars>>

LiveSpec == Init /\ [][Next]_vars /\ WF_vars(Running)

MaskSpecInit == MaskInit /\ CheckIdle /\ BatchIdle
MaskNext == MaskCall /\ UNCHANGED <<check_vars, batch_vars>>
MaskSpec == MaskSpecInit /\ [][MaskNext]_vars

CheckSpecInit == CheckInit /\ MaskIdle /\ BatchIdle
CheckNext == CheckCall /\ UNCHANGED <<mask_vars, batch_vars>>
CheckSpec == CheckSpecInit /\ [][CheckNext]_vars

---------------------------------------------------------------------------
(* Properties of check_api_key (CheckSpec) *)

ResultFields == {"ok", "status_code", "elapsed", "msg", "success_field", "raw_error"}

IsPrefix(p, t) == Len(p) <= Len(t) /\ \A i \in 1..Len(p) : p[i] = t[i]

\* the first n characters of t
FirstChars(t, n) == [i \in 1..(IF Len(t) < n THEN Len(t) ELSE n) |-> t[i]]

GotResponse(net) == net.kind = "response"
ObjectBody(net)  == ~ParseJson(net.text).raises /\ ParseJson(net.text).isdict
IntegerOne       == PyVal("int", <<"1">>)

\* C1: check_api_key returns ok=true if and only if the response has status
\* 200, its body is a JSON object and the object's success field is the
\* integer 1 (not 1.0, true, "1" or anything else); and for a JSON object at
\* status 200 the result's success_field is the value that was present.
C1_OkIffIntegerOne ==
    c_pc = "done" =>
        /\ ~c_ret.raised
        /\ c_ret.value.ok <=>
              /\ GotResponse(c_net)
              /\ c_net.status = HttpOk
              /\ ObjectBody(c_net)
              /\ ParseJson(c_net.text).success = IntegerOne
        /\ (GotResponse(c_net) /\ c_net.status = HttpOk /\ ObjectBody(c_net)) =>
              c_ret.value.success_field = ParseJson(c_net.text).success

\* C2: no exception leaves check_api_key: whatever the GET does, the call
\* returns a record with the six fields, and with ok=false whenever the GET
\* raised, the status is not 200 or the body is not a JSON object.
C2_NoExceptionEscapes ==
    c_pc = "done" =>
        /\ ~c_ret.raised
        /\ DOMAIN c_ret.value = ResultFields
        /\ c_ret.value.ok \in BOOLEAN
        /\ (~GotResponse(c_net) \/ c_net.status # HttpOk \/ ~ObjectBody(c_net)) =>
              ~c_ret.value.ok

C2_Witness ==
    /\ c_pc = "done" /\ c_net.kind = "error" /\ ~c_ret.raised
    /\ c_ret.value.msg.arg = <<"d", "n", "s">>

\* C3: for a response whose status is not 200 the result is ok=false, carries
\* that status, names it in the message, has no success_field and has the
\* first 300 characters of the body as raw_error; verdict, message and
\* success_field are the same for every other body at that status.
C3_Non200IgnoresBody ==
    (c_pc = "done" /\ GotResponse(c_net) /\ c_net.status # HttpOk) =>
        /\ ~c_ret.raised
        /\ ~c_ret.value.ok
        /\ c_ret.value.status_code = Some(c_net.status)
        /\ c_ret.value.msg = Msg("Error HTTP {status_code}", DecStr(c_net.status))
        /\ c_ret.value.success_field = PyNone
        /\ c_ret.value.raw_error = Some(FirstChars(c_net.text, RawErrorLen))
        /\ \A b \in Bodies :
              LET other == check_api_key(c_key, [c_net EXCEPT !.text = b]).value
              IN /\ other.ok = c_ret.value.ok
                 /\ other.msg = c_ret.value.msg
                 /\ other.success_field = c_ret.value.success_field

C3_Witness ==
    /\ c_pc = "done" /\ c_net.status = 401
    /\ c_net.text = PadTo(B_success(<<"1">>), RawErrorLen + 1)
    /\ Len(c_ret.value.raw_error.val) = RawErrorLen

\* C4: a timeout gives ok=false, no status_code, the timeout message, no
\* raw_error and an elapsed time; any other exception of the GET gives
\* ok=false, no status_code and a message carrying the exception's text; and
\* a result lacks its status_code only on these two paths.
C4_TimeoutAndTransport ==
    c_pc = "done" =>
        /\ ~c_ret.raised
        /\ c_net.kind = "timeout" =>
              /\ ~c_ret.value.ok
              /\ ~c_ret.value.status_code.some
              /\ c_ret.value.msg.text = "Timeout (no hubo respuesta dentro del limite)"
              /\ ~c_ret.value.raw_error.some
              /\ c_ret.value.elapsed \in Nat
        /\ c_net.kind = "error" =>
              /\ ~c_ret.value.ok
              /\ ~c_ret.value.status_code.some
              /\ c_ret.value.msg.arg = c_net.desc
        /\ ~c_ret.value.status_code.some => c_net.kind \in {"timeout", "error"}

C4_Witness ==
    /\ c_pc = "done" /\ c_net.kind = "timeout" /\ c_net.elapsed = MaxElapsed
    /\ c_ret.value.elapsed = MaxElapsed

---------------------------------------------------------------------------
(* Properties of mask_key (MaskSpec) *)

AllStars(s) == \A i \in 1..Len(s) : s[i] = "*"

\* s[from..to], 1-based and inclusive, empty when from > to
Cut(s, from, to) == [i \in 1..(to - from + 1) |-> s[from + i - 1]]

Contains(s, sub) ==
    \E at \in 0..(Len(s) - Len(sub)) : \A i \in 1..Len(sub) : s[at + i] = sub[i]

\* the masked form as section 4.1 gives it, for the trimmed key t
MaskAsSpecified(t, vs, ve) ==
    IF Len(t) <= vs + ve
    THEN [i \in 1..Len(t) |-> "*"]
    ELSE Cut(t, 1, vs) \o Stars4 \o Cut(t, Len(t) - ve + 1, Len(t))

Defaults == m_vs = DefaultVisibleStart /\ m_ve = DefaultVisibleEnd

\* C8: for every key and every visible_start, visible_end >= 0, mask_key
\* returns len(t) asterisks when len(t) <= visible_start + visible_end and
\* otherwise t[0:visible_start] + "****" + t[len(t)-visible_end:], t being the
\* trimmed key; so with visible_end = 0 nothing of the tail is appended.
C8_MaskAsSpecified ==
    m_pc = "done" => m_out = MaskAsSpecified(Strip(m_key), m_vs, m_ve)

\* the middle portion trimmed[4 : len-3]
Middle(t) == Cut(t, DefaultVisibleStart + 1, Len(t) - DefaultVisibleEnd)

\* the keys of bounded length with the first 4 and last 3 characters of t
SameEnds(t) ==
    {Cut(t, 1, DefaultVisibleStart) \o mid
        \o Cut(t, Len(t) - DefaultVisibleEnd + 1, Len(t)) :
            mid \in SeqsUpTo(KeyAlphabet, MaxKeyLen - 6) \ {<<>>}}

\* C9 as stated: with the defaults, a trimmed key of at most 7 characters
\* becomes as many asterisks, and for a longer one the output contains no
\* non-empty substring of the middle portion, and keys with the same first 4
\* and last 3 characters have the same masked form.
C9_NoMiddleSubstring ==
    (m_pc = "done" /\ Defaults) =>
        LET t == Strip(m_key) IN
        /\ Len(t) <= 7 => (Len(m_out) = Len(t) /\ AllStars(m_out))
        /\ Len(t) > 7 =>
              /\ \A from \in 1..Len(Middle(t)) : \A to \in from..Len(Middle(t)) :
                    ~Contains(m_out, Cut(Middle(t), from, to))
              /\ \A k2 \in SameEnds(t) : mask_key_default(k2) = m_out

\* C9, amended: with the defaults, a trimmed key of at most 7 characters
\* becomes as many asterisks; a longer one becomes its first 4 characters,
\* "****" and its last 3 characters, 11 characters that do not depend on the
\* middle portion, so keys with the same first 4 and last 3 characters have
\* the same masked form.
C9_MiddleNotCopied ==
    (m_pc = "done" /\ Defaults) =>
        LET t == Strip(m_key) IN
        /\ Len(t) <= 7 => (Len(m_out) = Len(t) /\ AllStars(m_out))
        /\ Len(t) > 7 =>
              /\ m_out = Cut(t, 1, 4) \o Stars4 \o Cut(t, Len(t) - 2, Len(t))
              /\ \A k2 \in SameEnds(t) : mask_key_default(k2) = m_out

C9_Witness ==
    /\ m_pc = "done" /\ Defaults
    /\ m_key = <<"a", "b", "a", "b", " ", "b", "a", "b">>
    /\ m_out = <<"a", "b", "a", "b", "*", "*", "*", "*", "b", "a", "b">>

---------------------------------------------------------------------------
(* Properties of the batch run (Spec, LiveSpec) *)

NonBlank(line) == \E i \in 1..Len(line) : line[i] \notin Whitespace

\* the non-blank lines of the text area, trimmed, in order
InputKeys ==
    LET kept == SelectSeq(SplitLines(keys_text), NonBlank)
    IN [i \in 1..Len(kept) |-> Strip(kept[i])]

OkReturned == Cardinality({i \in 1..Len(returned) : returned[i].value.ok})
FailedRows == Cardinality({i \in 1..Len(results) : results[i].works = "No"})

\* C5: during a run, after k keys the result list holds exactly the rows of
\* the first k non-blank trimmed lines, each with the masked key and the
\* verdict check_api_key returned for it, in input order; after the run it
\* has one row per non-blank line, ok_count is the number of ok=true verdicts
\* and ok_count + fail_count = len(results).
C5_RowsFollowInput ==
    /\ pc \in {"loop", "calling", "done"} =>
          /\ Len(results) = Len(returned)
          /\ Len(results) = (IF pc = "calling" THEN idx - 1 ELSE idx)
          /\ Len(results) <= Len(InputKeys)
          /\ \A i \in 1..Len(results) :
                /\ results[i].masked = mask_key_default(InputKeys[i])
                /\ http_calls[i].api_key = InputKeys[i]
                /\ results[i].works = "Si" <=> returned[i].value.ok
                /\ results[i].detail = returned[i].value.msg
    /\ pc = "done" =>
          /\ Len(results) = Len(InputKeys)
          /\ ok_count = Some(OkReturned)
          /\ ok_count.val + fail_count.val = Len(results)

C5_Witness ==
    /\ pc = "done" /\ Len(results) = 3
    /\ keys_text = Line_ab \o <<"\n">> \o Line_long \o <<"\n">> \o Line_ab
    /\ results[1].works = "Si" /\ results[2].works = "No" /\ results[3].works = "Si"
    /\ results[2].masked = <<"a", "b", "c", "d", "*", "*", "*", "*", "f", "g", "h">>
    /\ ok_count = Some(2) /\ fail_count = Some(1)

CallsInOrder ==
    /\ pc # "crashed"
    /\ Len(http_calls) <= Len(api_keys)
    /\ \A i \in 1..Len(http_calls) : http_calls[i] = Url(api_keys[i])
    /\ Len(http_calls) = Len(returned) + (IF inflight THEN 1 ELSE 0)
    /\ Len(results) = Len(returned)
    /\ pc = "done" => Len(http_calls) = Len(api_keys)

RunFinished ==
    /\ pc = "done"
    /\ Len(results) = Len(api_keys)
    /\ ok_count.some /\ fail_count.some

\* C6: whatever the outcomes of the keys, check_api_key is called once per
\* key, in input order, the call for a key starting only after the result of
\* the key before it is recorded, and a run over a non-empty batch goes on to
\* the finished state with all keys processed and the summary shown.
C6_RunsToTheEnd ==
    /\ [] CallsInOrder
    /\ (pc = "loop") ~> RunFinished

C6_Witness ==
    /\ RunFinished /\ Len(api_keys) = 3
    /\ returned[1].net.kind = "timeout"
    /\ returned[2].net.kind = "error"
    /\ returned[3].value.ok
    /\ Len(http_calls) = 3

AllBlank(text) == \A i \in 1..Len(text) : text[i] \in Whitespace

\* C7: a text without a non-blank line makes the run signal the empty input,
\* with no GET, no row and no summary; a run whose keys all failed instead
\* ends with ok_count = 0 and fail_count = n > 0 and without that signal.
C7_EmptyInputIsDistinct ==
    /\ (pc # "idle" /\ AllBlank(keys_text)) =>
          /\ pc = "warned" /\ warned
          /\ http_calls = <<>> /\ returned = <<>> /\ results = <<>>
          /\ ~ok_count.some /\ ~fail_count.some
    /\ warned => AllBlank(keys_text)
    /\ (pc = "done" /\ ok_count = Some(0)) =>
          /\ ~warned
          /\ fail_count.val > 0
          /\ fail_count.val = Len(http_calls)

C7_Witness ==
    /\ pc = "warned" /\ warned
    /\ keys_text = <<" ", "\n", " ">>
    /\ http_calls = <<>>

\* C10: a result has a raw_error only when ok is false and a response came:
\* none with ok=true, none after a timeout or another exception of the GET, and
\* one that is there is a prefix of the body of at most 300 characters.  So
\* debug_rows holds only failed keys, in input order, and never more entries
\* than the result list has failed rows.
C10_RawErrorOnlyOnFailure ==
    /\ \A i \in 1..Len(returned) :
          LET r == returned[i].value
              n == returned[i].net
          IN /\ r.ok => ~r.raw_error.some
             /\ n.kind \in {"timeout", "error"} => ~r.raw_error.some
             /\ r.raw_error.some =>
                   /\ ~r.ok /\ n.kind = "response"
                   /\ Len(r.raw_error.val) <= RawErrorLen
                   /\ IsPrefix(r.raw_error.val, n.text)
    /\ Len(debug_rows) <= FailedRows
    /\ \E f \in [1..Len(debug_rows) -> 1..Len(results)] :
          /\ \A j \in 1..Len(debug_rows) : \A k \in 1..Len(debug_rows) :
                j < k => f[j] < f[k]
          /\ \A j \in 1..Len(debug_rows) :
                /\ results[f[j]].works = "No"
                /\ results[f[j]].masked = debug_rows[j].masked
                /\ returned[f[j]].value.raw_error = Some(debug_rows[j].raw)

C10_Witness ==
    /\ pc = "done" /\ Len(results) = 3
    /\ results[1].works = "No" /\ results[2].works = "Si" /\ results[3].works = "No"
    /\ returned[1].net.text = B_empty
    /\ Len(debug_rows) = 1
    /\ Len(debug_rows[1].raw) = RawErrorLen

====
